---- MODULE Spec2Model ----
(***************************************************************************)
(* A model of web-scaler-proxy (src/app.js and src/unnamed/part_001).      *)
(*                                                                         *)
(* src/app.js holds three revisions of the server one after the other      *)
(* (lines 1-296, 299-566 and 569-945); src/unnamed/part_001 is a fourth.   *)
(* The variable rev says which of them is the running server.              *)
(*                                                                         *)
(* Strings are sequences of atoms.  "/", "." and "?" are the characters    *)
(* the code splits and matches on; every other atom ("https:", "www",      *)
(* "--proxy-host--", ...) stands for a run of characters that contains     *)
(* none of them.                                                           *)
(***************************************************************************)
EXTENDS Integers, Sequences, FiniteSets, TLC

\* ------------------------------------------------------------------------
\* Strings
\* ------------------------------------------------------------------------

\* String.prototype.startsWith
StartsWith(s, p) ==
    /\ Len(p) <= Len(s)
    /\ SubSeq(s, 1, Len(p)) = p

\* String.prototype.includes
Includes(s, sub) ==
    \E i \in 0..(Len(s) - Len(sub)) : SubSeq(s, i + 1, i + Len(sub)) = sub

\* String.prototype.substring(n)
Substring(s, n) == SubSeq(s, n + 1, Len(s))

\* index of the first "/" of s, or Len(s) + 1 when there is none
RECURSIVE FirstSlash(_, _)
FirstSlash(s, i) ==
    IF i > Len(s) THEN i
    ELSE IF s[i] = "/" THEN i
    ELSE FirstSlash(s, i + 1)

\* String.prototype.split('/'): the pieces between the slashes, "" included
RECURSIVE Split(_)
Split(s) ==
    LET i == FirstSlash(s, 1) IN
    IF i > Len(s) THEN << s >>
    ELSE << SubSeq(s, 1, i - 1) >> \o Split(SubSeq(s, i + 1, Len(s)))

\* Array.prototype.join('/')
RECURSIVE Join(_)
Join(parts) ==
    IF Len(parts) = 0 THEN << >>
    ELSE IF Len(parts) = 1 THEN parts[1]
    ELSE parts[1] \o << "/" >> \o Join(Tail(parts))

\* ------------------------------------------------------------------------
\* URLs (the WHATWG URL class of Node, on the strings of the model)
\* ------------------------------------------------------------------------

Schemes == { "http:", "https:" }

\* the slashes between the scheme and the authority: the parser skips them all
RECURSIVE SkipSlashes(_)
SkipSlashes(s) ==
    IF Len(s) > 0 /\ s[1] = "/" THEN SkipSlashes(Tail(s)) ELSE s

\* the authority at the head of s: up to the first "/" or "?"
RECURSIVE Authority(_)
Authority(s) ==
    IF Len(s) = 0 \/ s[1] \in { "/", "?" } THEN << >>
    ELSE << s[1] >> \o Authority(Tail(s))

\* new URL(s): ok is FALSE where the constructor throws TypeError (Invalid URL)
ParseURL(s) ==
    LET after == IF Len(s) > 0 THEN SkipSlashes(Tail(s)) ELSE << >>
        auth  == Authority(after)
        rest  == Substring(after, Len(auth))
        ok    == /\ Len(s) > 0
                 /\ s[1] \in Schemes
                 /\ Len(auth) > 0
                 /\ \A i \in 1..Len(auth) : auth[i] \notin Schemes
    IN  IF ok
        THEN [ ok |-> TRUE, protocol |-> s[1], host |-> auth,
               path |-> IF Len(rest) = 0 \/ rest[1] = "?" THEN << "/" >> \o rest ELSE rest ]
        ELSE [ ok |-> FALSE, protocol |-> "", host |-> << >>, path |-> << >> ]

\* url.origin
Origin(u) == << u.protocol, "/", "/" >> \o u.host

\* url.href
Href(u) == Origin(u) \o u.path

\* new URL(rel, base.origin): rel absolute, protocol-relative, root-relative or bare
Resolve(rel, base) ==
    IF Len(rel) > 0 /\ rel[1] \in Schemes THEN ParseURL(rel)
    ELSE IF StartsWith(rel, << "/", "/" >>) THEN ParseURL(<< base.protocol >> \o rel)
    ELSE IF StartsWith(rel, << "/" >>)
         THEN [ ok |-> TRUE, protocol |-> base.protocol, host |-> base.host, path |-> rel ]
    ELSE [ ok |-> TRUE, protocol |-> base.protocol, host |-> base.host,
           path |-> << "/" >> \o rel ]

\* ------------------------------------------------------------------------
\* Configuration store
\* ------------------------------------------------------------------------

\* A JSON number n, and the value NaN / JSON null (JSON.stringify writes NaN as
\* null).  scaleFactor is kept in tenths: 1.0 is Num(10), 1.5 is Num(15).
Num(n) == [ nan |-> FALSE, v |-> n ]
Null == [ nan |-> TRUE, v |-> 0 ]

Keys == { "targetUrl", "scaleFactor", "autoScroll", "scrollSpeed", "scrollSequence" }

DefaultTargetUrl == << "https:", "/", "/", "www", ".", "google", ".", "com", "/" >>

defaultConfig ==
    [ targetUrl      |-> DefaultTargetUrl,
      scaleFactor    |-> Num(10),
      autoScroll     |-> FALSE,
      scrollSpeed    |-> Num(50),
      scrollSequence |-> << >> ]

\* the three keys the third revision and part_001 default when a file exists
partialDefaults ==
    [ autoScroll |-> FALSE, scrollSpeed |-> Num(50), scrollSequence |-> << >> ]

\* { ...d, ...o }
Merge(d, o) ==
    [ k \in (DOMAIN d) \cup (DOMAIN o) |-> IF k \in DOMAIN o THEN o[k] ELSE d[k] ]

\* the object with no keys
EmptyObject == [ k \in {} |-> FALSE ]

\* config.json: missing, empty (blank), malformed JSON, or a JSON object
MissingFile == [ kind |-> "missing", obj |-> EmptyObject ]
EmptyFile == [ kind |-> "empty", obj |-> EmptyObject ]
MalformedFile == [ kind |-> "malformed", obj |-> EmptyObject ]
ObjectFile(o) == [ kind |-> "object", obj |-> o ]

Returned(c) == [ threw |-> FALSE, cfg |-> c ]
Thrown == [ threw |-> TRUE, cfg |-> EmptyObject ]

\* getConfig of the first revision: rawData.trim() || '{}', catch -> defaults
getConfig1(file) ==
    CASE file.kind = "missing"   -> Returned(defaultConfig)
      [] file.kind = "empty"     -> Returned(Merge(defaultConfig, EmptyObject))
      [] file.kind = "malformed" -> Returned(defaultConfig)
      [] OTHER                   -> Returned(Merge(defaultConfig, file.obj))

\* a getConfig that answers with the defaults whatever the file holds
getConfigDefaults(file) == Returned(defaultConfig)

\* getConfig of the second revision
getConfig2(file) ==
    CASE file.kind = "missing"   -> Returned(defaultConfig)
      [] file.kind = "empty"     -> Returned(defaultConfig)
      [] file.kind = "malformed" -> Returned(defaultConfig)
      [] OTHER                   -> Returned(Merge(defaultConfig, file.obj))

\* getConfig of the third revision: JSON.parse is not guarded
getConfig3(file) ==
    CASE file.kind = "missing"   -> Returned(defaultConfig)
      [] file.kind = "empty"     -> Thrown
      [] file.kind = "malformed" -> Thrown
      [] OTHER                   -> Returned(Merge(partialDefaults, file.obj))

\* getConfig of part_001, the same as the third revision's
getConfig4(file) ==
    CASE file.kind = "missing"   -> Returned(defaultConfig)
      [] file.kind \in { "empty", "malformed" } -> Thrown
      [] OTHER                   -> Returned(Merge(partialDefaults, file.obj))

Revisions == 1..4

getConfig(r, file) ==
    CASE r = 1 -> getConfig1(file)
      [] r = 2 -> getConfig2(file)
      [] r = 3 -> getConfig3(file)
      [] OTHER -> getConfig4(file)

\* the revisions whose handlers wrap saveConfig and the target checks in try/catch
\* and that have the POST /reset route
Guarded(r) == r \in { 1, 2 }

\* JSON.stringify followed by JSON.parse: a key whose value is undefined is not
\* written (the objects of the model simply lack it), NaN is written as null
\* (Null stands for both), every other value is read back as written
StoredObject(config) == config

\* ------------------------------------------------------------------------
\* The settings form of POST /config
\* ------------------------------------------------------------------------

DigitSeq == << "0", "1", "2", "3", "4", "5", "6", "7", "8", "9" >>
Digits == { DigitSeq[i] : i \in 1..Len(DigitSeq) }
DigitVal(d) == (CHOOSE i \in 1..Len(DigitSeq) : DigitSeq[i] = d) - 1

\* the longest prefix of t made of digits
RECURSIVE DigitRun(_)
DigitRun(t) ==
    IF Len(t) = 0 \/ t[1] \notin Digits THEN << >>
    ELSE << t[1] >> \o DigitRun(Tail(t))

RECURSIVE DigitsValue(_, _)
DigitsValue(ds, acc) ==
    IF Len(ds) = 0 THEN acc
    ELSE DigitsValue(Tail(ds), acc * Len(DigitSeq) + DigitVal(ds[1]))

Signed(t) == Len(t) > 0 /\ t[1] \in { "-", "+" }
Unsigned(t) == IF Signed(t) THEN Tail(t) ELSE t
SignOf(t) == IF Len(t) > 0 /\ t[1] = "-" THEN 0 - 1 ELSE 1

\* parseInt(t, 10): sign, digits, the rest ignored; NaN without a digit
parseInt(t) ==
    LET ds == DigitRun(Unsigned(t)) IN
    IF Len(ds) = 0 THEN Null ELSE Num(SignOf(t) * DigitsValue(ds, 0))

\* parseFloat(t), in tenths: sign, digits, "." digits, the rest ignored; NaN
\* without a digit.  The texts of the model carry at most one decimal.
parseFloat(t) ==
    LET ds   == DigitRun(Unsigned(t))
        rest == Substring(Unsigned(t), Len(ds))
        fs   == IF Len(rest) > 0 /\ rest[1] = "." THEN DigitRun(Tail(rest)) ELSE << >>
        tenths == IF Len(fs) = 0 THEN 0 ELSE DigitVal(fs[1])
    IN  IF Len(ds) = 0 /\ Len(fs) = 0 THEN Null
        ELSE Num(SignOf(t) * (DigitsValue(ds, 0) * Len(DigitSeq) + tenths))

\* a field of req.body: undefined when the form does not carry it
Has(form, k) == k \in DOMAIN form
Truthy(form, k) == Has(form, k) /\ form[k] # << >>

\* the object POST /config hands to saveConfig
newConfig(form) ==
    LET rest == [ scaleFactor    |-> IF Has(form, "scaleFactor")
                                     THEN parseFloat(form["scaleFactor"]) ELSE Null,
                  autoScroll     |-> Has(form, "autoScroll") /\ form["autoScroll"] = << "on" >>,
                  scrollSpeed    |-> IF Has(form, "scrollSpeed")
                                     THEN parseInt(form["scrollSpeed"]) ELSE Null,
                  scrollSequence |-> IF Truthy(form, "scrollSequence")
                                     THEN form["scrollSequence"] ELSE << >> ]
    IN  IF Has(form, "targetUrl")
        THEN Merge(rest, [ targetUrl |-> form["targetUrl"] ])
        ELSE rest

\* if (targetUrl && scaleFactor && scrollSpeed) of the third revision and part_001
FormAccepted(form) ==
    Truthy(form, "targetUrl") /\ Truthy(form, "scaleFactor") /\ Truthy(form, "scrollSpeed")

\* ------------------------------------------------------------------------
\* Host/path resolver of the proxy handler
\* ------------------------------------------------------------------------

proxyHostPrefix == << "/", "--proxy-host--", "/" >>

NoURL == [ ok |-> FALSE, protocol |-> "", host |-> << >>, path |-> << >> ]

\* const parts = originalUrl.substring(proxyHostPrefix.length).split('/');
\* const originalHost = parts.shift(); originalUrl = '/' + parts.join('/');
DecodePrefix(originalUrl) ==
    LET parts == Split(Substring(originalUrl, Len(proxyHostPrefix))) IN
    [ originalHost |-> Head(parts),
      originalUrl  |-> << "/" >> \o Join(Tail(parts)) ]

\* new URL(config.targetUrl); config.targetUrl may be undefined in the revisions
\* that do not default it
ParseTarget(config) ==
    IF "targetUrl" \in DOMAIN config THEN ParseURL(config["targetUrl"]) ELSE NoURL

\* target after the prefix decode: the configured target, or the decoded host
\* under the protocol of the configured target
TargetOf(config, originalUrl) ==
    LET configured == ParseTarget(config) IN
    IF StartsWith(originalUrl, proxyHostPrefix)
    THEN ParseURL(<< configured.protocol, "/", "/" >> \o DecodePrefix(originalUrl).originalHost)
    ELSE configured

\* const targetUrl = originalUrl === '/' ? new URL(config.targetUrl)
\*                                       : new URL(originalUrl, target.origin);
\* originalUrl after the prefix decode
PathOf(originalUrl) ==
    IF StartsWith(originalUrl, proxyHostPrefix)
    THEN DecodePrefix(originalUrl).originalUrl
    ELSE originalUrl

TargetUrlOf(config, originalUrl) ==
    IF PathOf(originalUrl) = << "/" >>
    THEN ParseTarget(config)
    ELSE Resolve(PathOf(originalUrl), TargetOf(config, originalUrl))

\* if (config.targetUrl.includes(proxyHost)) of the first and second revision
SelfLoop(config, proxyHost) == Includes(config["targetUrl"], proxyHost)

\* ------------------------------------------------------------------------
\* Rewriter of the absolute URLs of an HTML body
\* ------------------------------------------------------------------------

\* `${proxyOrigin}${proxyHostPrefix}${host}` followed by a path: the URL of the
\* proxy that stands for the path on the host
EncodedUrl(proxyOrigin, host, path) == proxyOrigin \o proxyHostPrefix \o host \o path

\* hostParts.slice(-2).join('.'): the last two labels of target.host
baseDomain(host) ==
    IF Len(host) <= 3 THEN host ELSE SubSeq(host, Len(host) - 2, Len(host))

\* the host text urlPattern ends with: target.host in the first revision, the
\* base domain of target.host in the later ones
PatternDomain(r, targetHost) ==
    IF r = 1 THEN targetHost ELSE baseDomain(targetHost)

\* where the match of [a-zA-Z0-9.-]*domain ends in a run of host characters
\* (the star is greedy: the last place domain ends at), 0 where nothing matches
MatchEnd(run, domain) ==
    LET ends == { i \in Len(domain)..Len(run) :
                    SubSeq(run, i - Len(domain) + 1, i) = domain }
    IN  IF ends = {} THEN 0 ELSE CHOOSE i \in ends : \A j \in ends : j <= i

\* body.replace(urlPattern, ...) on the URL "//" + text of a body served from
\* targetHost: the first revision writes target.host in the place of the match,
\* the later ones the host that matched; what follows the match stays
RewriteUrl(r, proxyOrigin, targetHost, text) ==
    LET run  == Authority(text)
        e    == MatchEnd(run, PatternDomain(r, targetHost))
        host == IF r = 1 THEN targetHost ELSE SubSeq(run, 1, e)
    IN  IF e = 0 THEN << "/", "/" >> \o text
        ELSE EncodedUrl(proxyOrigin, host, Substring(text, e))

\* A piece of an HTML body: the quoted value of a src, href or action attribute
\* (attr), or text anywhere else in the body.
Piece(attr, v) == [ attr |-> attr, v |-> v ]
NoPiece == Piece(FALSE, << >>)

\* body.replace(/(src|href|action)=(['"])(?!https?|:|\/\/|#)\/?([^'"]+)\2/gi, ...):
\* a value the lookahead lets through becomes proxyOrigin + proxyHostPrefix +
\* target.host + "/" + the value without its leading slash.  The lookahead
\* stops a value that begins with http, with ":", with "//" or with "#".
RewriteRelative(proxyOrigin, targetHost, piece) ==
    LET v == piece.v IN
    IF /\ piece.attr
       /\ Len(v) > 0
       /\ v[1] \notin Schemes \cup { "httpdocs", ":", "#" }
       /\ ~StartsWith(v, << "/", "/" >>)
    THEN Piece(TRUE, EncodedUrl(proxyOrigin, targetHost, << "/" >>)
                     \o ( IF v[1] = "/" /\ Len(v) > 1 THEN Tail(v) ELSE v ))
    ELSE piece

\* body.replace(urlPattern, ...) with the g flag over a text: every match of
\* (https?:)?//[a-zA-Z0-9.-]*domain, left to right, what a match wrote is not
\* scanned again
RECURSIVE RewriteAbsolute(_, _, _, _)
RewriteAbsolute(r, proxyOrigin, targetHost, s) ==
    LET after == IF Len(s) > 0 /\ s[1] \in Schemes THEN Tail(s) ELSE s
        text  == Substring(after, 2)
        e     == IF StartsWith(after, << "/", "/" >>)
                 THEN MatchEnd(Authority(text), PatternDomain(r, targetHost)) ELSE 0
    IN  IF Len(s) = 0 THEN s
        ELSE IF e = 0 THEN << s[1] >> \o RewriteAbsolute(r, proxyOrigin, targetHost, Tail(s))
        ELSE EncodedUrl(proxyOrigin, IF r = 1 THEN targetHost ELSE SubSeq(text, 1, e), << >>)
             \o RewriteAbsolute(r, proxyOrigin, targetHost, Substring(text, e))

\* the rewriting of the handler in its order: relative attribute values, then
\* absolute URLs, then .replace(/integrity="[^"]*"/gi, '')
RewritePiece(r, proxyOrigin, targetHost, piece) ==
    LET relative == RewriteRelative(proxyOrigin, targetHost, piece)
        absolute == RewriteAbsolute(r, proxyOrigin, targetHost, relative.v)
    IN  IF ~piece.attr /\ StartsWith(piece.v, << "integrity=" >>)
        THEN NoPiece
        ELSE Piece(piece.attr, absolute)

\* body.replace(/<meta http-equiv="Content-Security-Policy"[^]*>/gi, '') of the
\* second and later revisions: [^]* is greedy, the match runs from the meta
\* tag to the last ">" of the document
StripCsp(r, doc) ==
    LET at == { i \in DOMAIN doc : doc[i] = "<meta csp>" }
    IN  IF r = 1 \/ at = {} THEN doc
        ELSE SubSeq(doc, 1, ( CHOOSE i \in at : \A j \in at : i <= j ) - 1)

\* ------------------------------------------------------------------------
\* The auto-scroll script the rewriter injects into a page (first and third
\* revision; the second revision injects none and part_001 a placeholder)
\* ------------------------------------------------------------------------

\* text.split(c)
RECURSIVE SplitBy(_, _)
SplitBy(text, c) ==
    LET at == { i \in DOMAIN text : text[i] = c }
    IN  IF at = {} THEN << text >>
        ELSE LET i == CHOOSE k \in at : \A j \in at : k <= j
             IN  << SubSeq(text, 1, i - 1) >> \o SplitBy(SubSeq(text, i + 1, Len(text)), c)

\* Number(part): the empty string is 0, a run of digits its value, anything
\* else NaN
NumberOf(part) ==
    IF part = << >> THEN Num(0)
    ELSE IF DigitRun(part) = part THEN Num(DigitsValue(part, 0))
    ELSE Null

Range(start, end) == [ start |-> start, end |-> end ]

\* parseSequences() of the first revision and parseSequence(seqStr) of the
\* third: split(',') then split('-').map(Number), the filter on two parts that
\* are not NaN (and start < end in the third revision), and the first
\* revision's Math.min(end, pageHeight)
parseSequence(r, text, pageHeight) ==
    LET parts(entry) == SplitBy(entry, "-")
        kept(entry)  == /\ Len(parts(entry)) = 2
                        /\ ~NumberOf(parts(entry)[1]).nan
                        /\ ~NumberOf(parts(entry)[2]).nan
                        /\ r = 3 => NumberOf(parts(entry)[1]).v < NumberOf(parts(entry)[2]).v
        entries      == SelectSeq(SplitBy(text, ","), kept)
        end(entry)   == NumberOf(parts(entry)[2]).v
    IN  IF text = << >> THEN << >>
        ELSE [ i \in DOMAIN entries |->
                 Range(NumberOf(parts(entries[i])[1]).v,
                       IF r = 1 /\ end(entries[i]) > pageHeight
                       THEN pageHeight ELSE end(entries[i])) ]

\* window.scrollTo(0, y): the browser keeps scrollY within the page
ScrollTo(y, pageHeight) == IF y > pageHeight THEN pageHeight ELSE y

\* no page with the script is open
NoScroll ==
    [ mode |-> "off", text |-> << >>, ranges |-> << >>, index |-> 0, y |-> 0,
      height |-> 0, phase |-> "idle" ]

\* the script once it has started: the first revision pushes the whole page
\* where nothing parsed and scrolls to the first start; the third revision
\* calls scrollFullPage() where scrollRanges is empty, else
\* executeNextScrollSegment()
StartDriver(r, text, pageHeight) ==
    LET parsed == parseSequence(r, text, pageHeight)
        ranges == IF r = 1 /\ parsed = << >> THEN << Range(0, pageHeight) >> ELSE parsed
    IN  [ mode   |-> IF ranges = << >> THEN "full" ELSE "ranges",
          text   |-> text,
          ranges |-> ranges,
          index  |-> 0,
          y      |-> IF ranges = << >> THEN 0 ELSE ScrollTo(ranges[1].start, pageHeight),
          height |-> pageHeight,
          phase  |-> "scrolling" ]

\* ------------------------------------------------------------------------
\* State
\* ------------------------------------------------------------------------

VARIABLES
    rev,                \* the revision of the server that runs
    configFile,         \* data/config.json
    writable,           \* whether data/ and data/config.json can be written
    alive,              \* the server process runs
    clients,            \* wss.clients: the state of each live-reload socket
    inbox,              \* per live-reload client, the 'reload' messages sent to it
    lastReportedHeight, \* let lastReportedHeight
    res,                \* the response of the last request a synchronous route answered
    tick,               \* flips whenever a synchronous route answers
    req,                \* the request in the asynchronous proxy handler
    outbound,           \* the upstream request axios issued for req
    issued,             \* history: the cookies the upstream has set so far
    saved,              \* history: the object the last successful saveConfig was given
    scroll              \* the auto-scroll script of the page the browser shows

vars == << rev, configFile, writable, alive, clients, inbox, lastReportedHeight,
           res, tick, req, outbound, issued, saved, scroll >>

\* ------------------------------------------------------------------------
\* Bounds and inputs
\* ------------------------------------------------------------------------

MaxClients == 2
MaxReloads == 2

Clients == 1..MaxClients

ProxyHost == << "proxy" >>
ProxyHosts == { ProxyHost, << "example", ".", "com" >> }

ExampleUrl == << "https:", "/", "/", "www", ".", "example", ".", "com", "/", "a" >>
SelfUrl == << "http:", "/", "/", "proxy", "/" >>
SchemelessUrl == << "www", ".", "example", ".", "com" >>

CdnHost == << "cdn", ".", "example", ".", "com" >>

RequestUrls ==
    { << "/" >>,
      << "/", "dashboard" >>,
      proxyHostPrefix \o CdnHost \o << "/" >>,
      proxyHostPrefix \o CdnHost \o << "/", "a", "/", "b" >>,
      proxyHostPrefix \o ProxyHost \o << "/", "a" >>,
      proxyHostPrefix }

CookieValues == { "abc123", "xyz789" }
NoCookies == [ n \in {} |-> "" ]
\* the Cookie header of the browser: at most the cookie "session"
BrowserCookies == { NoCookies } \cup { [ n \in { "session" } |-> v ] : v \in CookieValues }

Forms ==
    { [ targetUrl |-> ExampleUrl, scaleFactor |-> << "1", ".", "5" >>,
        scrollSpeed |-> << "5", "0" >>, scrollSequence |-> << "0", "-", "5", "0", "0" >> ],
      [ targetUrl |-> SelfUrl, scaleFactor |-> << "1" >>, scrollSpeed |-> << "5", "0" >>,
        autoScroll |-> << "on" >>, scrollSequence |-> << >> ],
      [ targetUrl |-> SchemelessUrl, scaleFactor |-> << "a", "b", "c" >>,
        scrollSpeed |-> << "-", "5" >>, scrollSequence |-> << >> ],
      [ scaleFactor |-> << "2" >>, scrollSpeed |-> << >> ] }

InitialFiles ==
    { MissingFile, EmptyFile, MalformedFile,
      ObjectFile(EmptyObject),
      ObjectFile([ scaleFactor |-> Num(15) ]),
      ObjectFile([ targetUrl |-> ExampleUrl, autoScroll |-> TRUE ]),
      ObjectFile([ targetUrl |-> SelfUrl ]),
      ObjectFile([ targetUrl |-> SchemelessUrl ]) }

Html == << "text/", "html" >>
HtmlCharset == << "text/", "html", ";", "charset=utf-8" >>
Css == << "text/", "css" >>
Javascript == << "application/", "javascript" >>
Png == << "image/", "png" >>

SessionCookie(v) == [ name |-> "session", value |-> v, attrs |-> { "domain", "secure", "path" } ]

NoHeaders == [ h \in {} |-> << >> ]

Answered(status, headers) == [ status |-> status, headers |-> headers ]

\* what the upstream answers with: a status and a header object (axios
\* lower-cases the names)
UpstreamAnswers ==
    { Answered(200, "content-type" :> HtmlCharset),
      Answered(200, ( "content-type" :> Html ) @@ ( "set-cookie" :> { SessionCookie("abc123") } )),
      Answered(404, "content-type" :> Html),
      Answered(503, ( "content-type" :> Html ) @@ ( "x-frame-options" :> << "DENY" >> )),
      Answered(200, ( "content-type" :> Png ) @@ ( "etag" :> << "v1" >> )),
      Answered(404, "content-type" :> Css),
      Answered(200, ( "content-type" :> Png ) @@ ( "content-encoding" :> << "gzip" >> )
                    @@ ( "access-control-allow-origin" :> << "*" >> )),
      Answered(201, ( "content-type" :> Css ) @@ ( "location" :> << "/", "dashboard" >> )),
      Answered(500, NoHeaders),
      Answered(303, "location" :> << "/", "dashboard" >>),
      Answered(302, ( "location" :> << "/", "dashboard" >> )
                    @@ ( "set-cookie" :> { SessionCookie("xyz789") } )),
      Answered(301, "location" :> ( << "https:", "/", "/" >> \o CdnHost
                                    \o << "/", "login", "?", "next" >> )),
      Answered(307, "location" :> << "login" >>),
      Answered(308, NoHeaders) }

\* ------------------------------------------------------------------------
\* Initial state
\* ------------------------------------------------------------------------

NA == [ na |-> TRUE, px |-> 0 ]
Pixels(n) == [ na |-> FALSE, px |-> n ]

\* no saveConfig has succeeded since the server started
NotSaved == [ op |-> "", config |-> EmptyObject ]

NoResponse == [ op |-> "", status |-> 0, page |-> "", location |-> << >>, shown |-> EmptyObject ]

NoOutbound ==
    [ sent |-> FALSE, method |-> "", url |-> NoURL, host |-> << >>, cookie |-> NoCookies,
      referer |-> << >> ]

IdleReq ==
    [ phase |-> "idle", method |-> "", url |-> << >>, host |-> << >>, cookie |-> NoCookies,
      config |-> EmptyObject, target |-> NoURL, path |-> << >>, fetches |-> 0,
      upStatus |-> 0, upHeaders |-> NoHeaders, buffered |-> FALSE,
      status |-> 0, page |-> "", headers |-> NoHeaders, doc |-> << >>, body |-> << >>,
      piece |-> NoPiece, written |-> NoPiece ]

InitServer(files) ==
    /\ rev \in Revisions
    /\ configFile \in files
    /\ writable \in BOOLEAN
    /\ alive = TRUE
    /\ clients = [ c \in Clients |-> "none" ]
    /\ inbox = [ c \in Clients |-> 0 ]
    /\ lastReportedHeight = NA
    /\ res = NoResponse
    /\ tick = FALSE
    /\ req = IdleReq
    /\ outbound = NoOutbound
    /\ issued = NoCookies
    /\ saved = NotSaved

InitWith(files) == InitServer(files) /\ scroll = NoScroll

Init == InitWith(InitialFiles)

\* ------------------------------------------------------------------------
\* Live reload
\* ------------------------------------------------------------------------

\* wss.on('connection'): the socket joins wss.clients, readyState OPEN
Connect(c) ==
    /\ alive
    /\ clients[c] = "none"
    /\ clients' = [ clients EXCEPT ![c] = "open" ]
    /\ UNCHANGED << scroll, rev, configFile, writable, alive, inbox, lastReportedHeight,
                    res, tick, req, outbound, issued, saved >>

\* the closing handshake starts: readyState CLOSING, the socket still in wss.clients
Closing(c) ==
    /\ alive
    /\ clients[c] = "open"
    /\ clients' = [ clients EXCEPT ![c] = "closing" ]
    /\ UNCHANGED << scroll, rev, configFile, writable, alive, inbox, lastReportedHeight,
                    res, tick, req, outbound, issued, saved >>

\* ws.on('close'): the socket has left wss.clients
Disconnect(c) ==
    /\ alive
    /\ clients[c] \in { "open", "closing" }
    /\ clients' = [ clients EXCEPT ![c] = "none" ]
    /\ UNCHANGED << scroll, rev, configFile, writable, alive, inbox, lastReportedHeight,
                    res, tick, req, outbound, issued, saved >>

\* a broadcast that sends to every socket it ever saw, whatever its readyState
broadcastReloadAll(cl, in) == [ c \in Clients |-> in[c] + 1 ]

\* wss.clients.forEach(client => { if (client.readyState === WebSocket.OPEN)
\* client.send('reload'); })
broadcastReload(cl, in) ==
    [ c \in Clients |-> IF cl[c] = "open" THEN in[c] + 1 ELSE in[c] ]

\* ------------------------------------------------------------------------
\* Synchronous routes
\* ------------------------------------------------------------------------

Answer(op, status, page, location, shown) ==
    /\ res' = [ op |-> op, status |-> status, page |-> page, location |-> location,
                shown |-> shown ]
    /\ tick' = ~tick

ConfigSavedUrl == << "/", "config", "?", "saved=true" >>
ConfigUrl == << "/", "config" >>

\* a route that broadcasts before it saves
ReloadAndSave(op, config, to) ==
    /\ inbox' = broadcastReload(clients, inbox)
    /\ IF writable
       THEN /\ configFile' = ObjectFile(StoredObject(config))
            /\ saved' = [ op |-> op, config |-> config ]
            /\ Answer(op, 302, "redirect", to, EmptyObject)
       ELSE /\ UNCHANGED << configFile, saved >>
            /\ Answer(op, 500, "save_error", ConfigUrl, EmptyObject)

\* saveConfig(config) followed by broadcastReload() and res.redirect(to); where
\* the write throws: the catch of the first and second revision answers its 500
\* page, and in the other revisions Express answers the exception with its own
SaveAndReload(op, config, to) ==
    IF writable
    THEN /\ configFile' = ObjectFile(StoredObject(config))
         /\ saved' = [ op |-> op, config |-> config ]
         /\ inbox' = broadcastReload(clients, inbox)
         /\ Answer(op, 302, "redirect", to, EmptyObject)
    ELSE /\ UNCHANGED << configFile, inbox, saved >>
         /\ Answer(op, 500, IF Guarded(rev) THEN "save_error" ELSE "express_error",
                   IF Guarded(rev) THEN ConfigUrl ELSE << >>, EmptyObject)

\* app.post('/config')
PostConfigOf(forms) ==
    \E form \in forms :
        /\ alive
        /\ \A c \in Clients : inbox[c] < MaxReloads
        /\ IF Guarded(rev) \/ FormAccepted(form)
           THEN SaveAndReload("POST /config", newConfig(form), ConfigSavedUrl)
           ELSE /\ Answer("POST /config", 400, "invalid_data", << >>, EmptyObject)
                /\ UNCHANGED << configFile, inbox, saved >>
        /\ UNCHANGED << scroll, rev, writable, alive, clients, lastReportedHeight, req, outbound,
                        issued >>

PostConfig == PostConfigOf(Forms)

\* app.get('/config'): the form filled from getConfig(); where getConfig throws
\* Express answers the exception with its own 500 page
GetConfig ==
    /\ alive
    /\ LET r == getConfig(rev, configFile) IN
       IF r.threw
       THEN Answer("GET /config", 500, "express_error", << >>, EmptyObject)
       ELSE Answer("GET /config", 200, "config_page", << >>, r.cfg)
    /\ UNCHANGED << scroll, rev, configFile, writable, alive, clients, inbox, lastReportedHeight,
                    req, outbound, issued, saved >>

\* the JSON bodies of POST /report-height: height a number, a string, or missing
HeightBodies ==
    { [ kind |-> "number", px |-> 0 ], [ kind |-> "number", px |-> 1200 ],
      [ kind |-> "string", px |-> 0 ], [ kind |-> "missing", px |-> 0 ] }

\* app.post('/report-height'): if (height && typeof height === 'number')
ReportHeightOf(body) ==
    /\ alive
    /\ IF body.kind = "number" /\ body.px # 0
       THEN /\ lastReportedHeight' = Pixels(body.px)
            /\ Answer("POST /report-height", 200, "height_received", << >>, EmptyObject)
       ELSE /\ UNCHANGED lastReportedHeight
            /\ Answer("POST /report-height", 400, "invalid_height", << >>, EmptyObject)
    /\ UNCHANGED << scroll, rev, configFile, writable, alive, clients, inbox, req, outbound,
                    issued, saved >>

ReportHeight == \E body \in HeightBodies : ReportHeightOf(body)

\* ------------------------------------------------------------------------
\* The proxy handler: app.use('/', async (req, res) => ...)
\* ------------------------------------------------------------------------

\* An exception that leaves the async handler rejects a promise nobody handles.
\* What follows depends on the Express and Node versions the image installs
\* (the repository pins neither): the process ends on the unhandled rejection and
\* the request is never answered, or the framework answers with its own 500 page.
AsyncThrow(r) ==
    \/ /\ alive' = FALSE
       /\ req' = [ r EXCEPT !.phase = "hung" ]
    \/ /\ alive' = alive
       /\ req' = [ r EXCEPT !.phase = "done", !.status = 500, !.page = "express_error" ]

\* res.status(status).send(page) and return
Reply(r, status, page) ==
    /\ req' = [ r EXCEPT !.phase = "done", !.status = status, !.page = page ]
    /\ alive' = alive

\* The Referer sent upstream.  The first and second revision spread req.headers
\* into the outbound headers and send the browser's Referer as it came (<< >>:
\* none).  The third revision and part_001 send target.origin, or the path and
\* search of the browser's Referer on target.origin where that Referer parses
\* and its path does not begin with the reserved prefix.
RefererOf(r, referer, target) ==
    LET refererUrl == ParseURL(referer) IN
    IF r \in { 1, 2 } THEN referer
    ELSE IF refererUrl.ok /\ ~StartsWith(refererUrl.path, proxyHostPrefix)
         THEN Href(Resolve(refererUrl.path, target))
         ELSE Origin(target)

\* the handler up to "await axios(axiosConfig)"
ProxyBeginWith(method, originalUrl, proxyHost, cookie, referer) ==
    LET r         == getConfig(rev, configFile)
        base      == [ IdleReq EXCEPT !.method = method, !.url = originalUrl,
                                      !.host = proxyHost, !.cookie = cookie ]
        with      == [ base EXCEPT !.config = r.cfg ]
        target    == TargetOf(r.cfg, originalUrl)
        targetUrl == TargetUrlOf(r.cfg, originalUrl)
    IN  /\ alive
        /\ req.phase \notin { "fetching", "body" }
        /\ IF r.threw
           THEN AsyncThrow(base) /\ outbound' = NoOutbound
           ELSE IF Guarded(rev) /\ SelfLoop(r.cfg, proxyHost)
           THEN Reply(with, 500, "config_error") /\ outbound' = NoOutbound
           ELSE IF ~ParseTarget(r.cfg).ok
           THEN /\ IF Guarded(rev) THEN Reply(with, 500, "invalid_target")
                                   ELSE AsyncThrow(with)
                /\ outbound' = NoOutbound
           ELSE IF ~target.ok \/ ~targetUrl.ok
           THEN AsyncThrow(with) /\ outbound' = NoOutbound
           ELSE /\ req' = [ with EXCEPT !.phase = "fetching", !.fetches = 1,
                                        !.target = target,
                                        !.path = PathOf(originalUrl) ]
                /\ outbound' = [ sent   |-> TRUE,
                                 method |-> method,
                                 url    |-> targetUrl,
                                 host   |-> target.host,
                                 cookie |-> cookie,
                                 referer |-> RefererOf(rev, referer, target) ]
                /\ alive' = alive
        /\ UNCHANGED << scroll, rev, configFile, writable, clients, inbox, lastReportedHeight,
                        res, tick, issued, saved >>

\* a request that carries no Referer
ProxyBegin(method, originalUrl, proxyHost, cookie) ==
    ProxyBeginWith(method, originalUrl, proxyHost, cookie, << >>)

\* any request no other route takes
ProxyRequestOf(urls, hosts, cookies) ==
    \E originalUrl \in urls, proxyHost \in hosts, cookie \in cookies :
        ProxyBegin("GET", originalUrl, proxyHost, cookie)

ProxyRequest == ProxyRequestOf(RequestUrls, ProxyHosts, BrowserCookies)

ResetUrl == << "/", "reset" >>
ClearCookiesUrl == << "/", "clear-cookies" >>

\* app.post('/reset') of the first and second revision; the other revisions have
\* no such route and the request reaches the proxy handler
PostReset ==
    IF Guarded(rev)
    THEN /\ alive
         /\ \A c \in Clients : inbox[c] < MaxReloads
         /\ SaveAndReload("POST /reset", defaultConfig, ConfigUrl)
         /\ UNCHANGED << scroll, rev, writable, alive, clients, lastReportedHeight, req, outbound,
                         issued >>
    ELSE ProxyBegin("POST", ResetUrl, ProxyHost, NoCookies)

\* no revision has a /clear-cookies route: the request reaches the proxy handler
PostClearCookies == ProxyBegin("POST", ClearCookiesUrl, ProxyHost, NoCookies)

\* a handler that tries the upstream a second time before it gives up
UpstreamFailsRetry ==
    /\ alive
    /\ req.phase = "fetching"
    /\ IF req.fetches < 2
       THEN req' = [ req EXCEPT !.fetches = @ + 1 ] /\ alive' = alive
       ELSE Reply(req, 500, "proxy_error")
    /\ UNCHANGED << scroll, rev, configFile, writable, clients, inbox, lastReportedHeight,
                    res, tick, outbound, issued, saved >>

\* catch (error) of the handler: axios rejected (DNS, connect, timeout)
UpstreamFails ==
    /\ alive
    /\ req.phase = "fetching"
    /\ Reply(req, 500, "proxy_error")
    /\ UNCHANGED << scroll, rev, configFile, writable, clients, inbox, lastReportedHeight,
                    res, tick, outbound, issued, saved >>

RedirectStatuses == { 301, 302, 307, 308 }

Filtered1 ==
    { "content-security-policy", "x-frame-options", "transfer-encoding",
      "content-encoding", "content-length" }
Filtered2 ==
    { "content-security-policy", "x-frame-options", "transfer-encoding", "set-cookie",
      "location", "content-encoding", "content-length" }
Filtered3 ==
    { "content-security-policy", "x-frame-options", "transfer-encoding", "set-cookie",
      "location", "access-control-allow-origin", "access-control-allow-methods",
      "access-control-allow-headers", "access-control-allow-credentials" }

Filtered(r) ==
    CASE r = 1 -> Filtered1
      [] r = 3 -> Filtered3
      [] OTHER -> Filtered2

\* Object.keys(responseHeaders).forEach(key => { if (![...].includes(lowerKey))
\* res.setHeader(key, responseHeaders[key]); })
CopyHeaders(r, h) == [ k \in (DOMAIN h) \ Filtered(r) |-> h[k] ]

\* the third revision and part_001 hand Set-Cookie to the browser without its
\* Domain and Secure attributes; the first and second revision have no such code
RewrittenCookies(r, h) ==
    IF r \in { 3, 4 } /\ "set-cookie" \in DOMAIN h
    THEN "set-cookie" :> { [ c EXCEPT !.attrs = c.attrs \ { "domain", "secure" } ]
                           : c \in h["set-cookie"] }
    ELSE NoHeaders

\* the content types whose body the handler buffers before it answers
Buffers(r, contentType) ==
    IF r \in { 1, 3 }
    THEN Includes(contentType, << "text/", "html" >>)
    ELSE \/ Includes(contentType, << "text/", "html" >>)
         \/ Includes(contentType, << "javascript" >>)
         \/ Includes(contentType, << "css" >>)

\* new URL(responseHeaders.location, target.origin); a missing header is the
\* string "undefined"
LocationOf(h, target) ==
    Resolve(IF "location" \in DOMAIN h THEN h["location"] ELSE << "undefined" >>, target)

\* the Set-Cookie entries of a response as a name -> value map
CookiesSet(h) ==
    IF "set-cookie" \in DOMAIN h
    THEN [ n \in { c.name : c \in h["set-cookie"] } |->
             (CHOOSE c \in h["set-cookie"] : c.name = n).value ]
    ELSE NoCookies

\* the handler from the answer of axios up to the read of the body
UpstreamRespondsOf(answers) ==
    \E answer \in answers :
        LET status == answer.status
            h   == answer.headers
            got == [ req EXCEPT !.upStatus = status, !.upHeaders = h ]
            loc == LocationOf(h, req.target)
        IN  /\ alive
            /\ req.phase = "fetching"
            /\ issued' = Merge(issued, CookiesSet(h))
            /\ alive' = alive
            /\ IF status \in RedirectStatuses
               THEN IF loc.ok
                    THEN req' = [ got EXCEPT !.phase = "done", !.status = status,
                                             !.page = "redirect",
                                             !.headers = ( "location" :> loc.path )
                                                         @@ RewrittenCookies(rev, h) ]
                    ELSE req' = [ got EXCEPT !.phase = "done", !.status = 500,
                                             !.page = "proxy_error",
                                             !.headers = RewrittenCookies(rev, h) ]
               ELSE req' = [ got EXCEPT
                               !.phase = "body",
                               !.buffered = Buffers(rev, IF "content-type" \in DOMAIN h
                                                         THEN h["content-type"] ELSE << >>),
                               !.headers = RewrittenCookies(rev, h) @@ CopyHeaders(rev, h) ]
            /\ UNCHANGED << scroll, rev, configFile, writable, clients, inbox, lastReportedHeight,
                            res, tick, outbound, saved >>

UpstreamResponds == UpstreamRespondsOf(UpstreamAnswers)

\* the status res.send(body) goes out with: the first revision never calls
\* res.status on this path
SentStatus(r, upStatus) == IF r = 1 THEN 200 ELSE upStatus

\* An HTML document as its sequence of tags.  "<head lang>" is a head tag that
\* carries an attribute, so the text holds no literal "<head>".
Documents ==
    { << "<html>", "<head>", "</head>", "<body>" >>,
      << "<html>", "<head lang>", "</head>", "<body>" >>,
      << "<html>", "<body>" >>,
      << "<head>", "</head>", "<body>", "<head>" >> }

\* the style, the live-reload script and the height reporter the handler adds
Instrumentation == "<style><script>"

\* body.indexOf(tag) over the tags of a document, 0 where it has none
IndexOf(doc, tag) ==
    LET at == { i \in DOMAIN doc : doc[i] = tag }
    IN  IF at = {} THEN 0 ELSE CHOOSE i \in at : \A j \in at : i <= j

\* the first revision: body.replace('</head>', `${styling}${injectedScripts}</head>`);
\* the others: body.includes('<head>') ? body.replace('<head>', `<head>${injectedContent}`)
\*                                      : injectedContent + body
Inject(r, doc) ==
    LET i == IndexOf(doc, IF r = 1 THEN "</head>" ELSE "<head>")
        k == IF r = 1 THEN i - 1 ELSE i
    IN  IF i = 0
        THEN IF r = 1 THEN doc ELSE << Instrumentation >> \o doc
        ELSE SubSeq(doc, 1, k) \o << Instrumentation >> \o SubSeq(doc, k + 1, Len(doc))

\* a handler that reads the stored configuration again when the body arrives
\* and rewrites with the target it then finds
RereadingBodyEnds(docs, pieces) ==
    /\ alive
    /\ req.phase = "body"
    /\ \E doc \in docs, piece \in pieces :
           Reply([ req EXCEPT
                     !.doc = doc,
                     !.piece = piece,
                     !.written = RewritePiece(rev, << "http:", "/", "/" >> \o req.host,
                                              TargetOf(getConfig(rev, configFile).cfg,
                                                       req.url).host,
                                              piece),
                     !.body = Inject(rev, StripCsp(rev, doc)) ],
                 SentStatus(rev, req.upStatus), "buffered")
    /\ UNCHANGED << scroll, rev, configFile, writable, clients, inbox, lastReportedHeight,
                    res, tick, outbound, issued, saved >>

\* the body has arrived in full: res.status(status).send(body), or the end of
\* decoder.pipe(res) after res.status(status)
BodyEndsOf(docs, pieces) ==
    /\ alive
    /\ req.phase = "body"
    /\ IF req.buffered
       THEN IF Includes(req.upHeaders["content-type"], Html)
            THEN \E doc \in docs, piece \in pieces :
                     Reply([ req EXCEPT
                               !.doc = doc,
                               !.piece = piece,
                               !.written = RewritePiece(rev, << "http:", "/", "/" >> \o req.host,
                                                        req.target.host, piece),
                               !.body = Inject(rev, StripCsp(rev, doc)) ],
                           SentStatus(rev, req.upStatus), "buffered")
            ELSE Reply(req, SentStatus(rev, req.upStatus), "buffered")
       ELSE Reply(req, req.upStatus, "piped")
    /\ UNCHANGED << scroll, rev, configFile, writable, clients, inbox, lastReportedHeight,
                    res, tick, outbound, issued, saved >>

\* the body stream or its decoder emits 'error': the for-await of a buffered
\* body throws into the catch of the handler; a piped body has no 'error'
\* listener and no catch, the response is never ended, and the unhandled 'error'
\* event may end the process
BodyFails ==
    /\ alive
    /\ req.phase = "body"
    /\ IF req.buffered
       THEN Reply(req, 500, "proxy_error")
       ELSE /\ req' = [ req EXCEPT !.phase = "hung", !.status = req.upStatus ]
            /\ alive' \in BOOLEAN
    /\ UNCHANGED << scroll, rev, configFile, writable, clients, inbox, lastReportedHeight,
                    res, tick, outbound, issued, saved >>

BodyEnds == BodyEndsOf(Documents, { NoPiece })

\* ------------------------------------------------------------------------
\* The auto-scroll driver in the browser
\* ------------------------------------------------------------------------

\* one animation frame of scrollStep outside its pause (first revision): scrollBy,
\* then on scrollY >= current.end the index moves on and wraps, scrollTo the
\* new start, pauseUntil; one run of the setInterval callback (third revision):
\* on scrollY >= end clearInterval, currentSequenceIndex++ and the 2000 ms
\* timeout, else scrollBy; in scrollFullPage the bottom of the page ends the run
ScrollStep ==
    /\ scroll.mode # "off"
    /\ scroll.phase = "scrolling"
    /\ LET below == ScrollTo(scroll.y + 1, scroll.height)
           next  == IF scroll.index + 1 >= Len(scroll.ranges) THEN 0 ELSE scroll.index + 1
       IN  IF rev = 1
           THEN IF below >= scroll.ranges[scroll.index + 1].end
                THEN scroll' = [ scroll EXCEPT
                                   !.index = next,
                                   !.y = ScrollTo(scroll.ranges[next + 1].start, scroll.height),
                                   !.phase = "dwell" ]
                ELSE scroll' = [ scroll EXCEPT !.y = below ]
           ELSE IF scroll.mode = "full"
                THEN IF scroll.y >= scroll.height
                     THEN scroll' = [ scroll EXCEPT !.phase = "dwell" ]
                     ELSE scroll' = [ scroll EXCEPT !.y = below ]
                ELSE IF scroll.y >= scroll.ranges[scroll.index + 1].end
                     THEN scroll' = [ scroll EXCEPT !.index = scroll.index + 1,
                                                    !.phase = "dwell" ]
                     ELSE scroll' = [ scroll EXCEPT !.y = below ]
    /\ UNCHANGED << rev, configFile, writable, alive, clients, inbox, lastReportedHeight,
                    res, tick, req, outbound, issued, saved >>

\* the pause is over: Date.now() reaches pauseUntil (first revision); the
\* timeout calls executeNextScrollSegment, which wraps the index and scrolls to
\* the start of the range, or scrollFullPage after the scroll back to the top
\* (third revision)
DwellEnds ==
    /\ scroll.mode # "off"
    /\ scroll.phase = "dwell"
    /\ LET index == IF scroll.index >= Len(scroll.ranges) THEN 0 ELSE scroll.index
       IN  IF rev = 1
           THEN scroll' = [ scroll EXCEPT !.phase = "scrolling" ]
           ELSE IF scroll.mode = "full"
                THEN scroll' = [ scroll EXCEPT !.y = 0, !.phase = "scrolling" ]
                ELSE scroll' = [ scroll EXCEPT
                                   !.index = index,
                                   !.y = ScrollTo(scroll.ranges[index + 1].start, scroll.height),
                                   !.phase = "scrolling" ]
    /\ UNCHANGED << rev, configFile, writable, alive, clients, inbox, lastReportedHeight,
                    res, tick, req, outbound, issued, saved >>

\* ------------------------------------------------------------------------
\* Specification
\* ------------------------------------------------------------------------

Next ==
    \/ \E c \in Clients : Connect(c)
    \/ \E c \in Clients : Closing(c)
    \/ \E c \in Clients : Disconnect(c)
    \/ PostConfig
    \/ PostReset
    \/ PostClearCookies
    \/ GetConfig
    \/ ReportHeight
    \/ ProxyRequest
    \/ UpstreamFails
    \/ UpstreamResponds
    \/ BodyEnds
    \/ BodyFails
    \/ ScrollStep
    \/ DwellEnds

Spec == Init /\ [][Next]_vars

\* ------------------------------------------------------------------------
\* The same machine restricted to the routes a group of properties is about;
\* the variables the other routes write keep their initial values
\* ------------------------------------------------------------------------

\* the configuration store: the settings routes, and POST /reset where it is proxied
NextStore ==
    \/ PostConfig
    \/ PostReset
    \/ GetConfig
    \/ UpstreamFails

SpecStore == Init /\ [][NextStore]_vars

\* the settings routes together with the proxy handler that reads the settings
NextReadWrite ==
    \/ PostConfig
    \/ PostReset
    \/ GetConfig
    \/ ProxyRequestOf({ << "/" >>, << "/", "dashboard" >> }, { ProxyHost }, { NoCookies })
    \/ UpstreamFails

SpecReadWrite == Init /\ [][NextReadWrite]_vars

\* the settings routes in front of live-reload clients, on a stored object or
\* on no file, in a data directory that can or cannot be written
SavedFiles == { MissingFile, ObjectFile([ targetUrl |-> ExampleUrl, autoScroll |-> TRUE ]) }

InitSave == InitWith(SavedFiles)

NextSave ==
    \/ \E c \in Clients : Connect(c)
    \/ \E c \in Clients : Disconnect(c)
    \/ PostConfig
    \/ PostReset
    \/ GetConfig
    \/ UpstreamFails

SpecSave == InitSave /\ [][NextSave]_vars

\* the height report and the form that shows the last height
NextHeight ==
    \/ ReportHeight
    \/ GetConfig

SpecHeight == Init /\ [][NextHeight]_vars

\* the proxy handler on a settings file nobody rewrites
InitProxy == Init /\ writable

NextProxy ==
    \/ ProxyRequestOf(RequestUrls, ProxyHosts, { NoCookies })
    \/ UpstreamFails
    \/ UpstreamResponds
    \/ BodyEnds
    \/ BodyFails

SpecProxy == InitProxy /\ [][NextProxy]_vars

\* the cookies of successive requests for the configured target
CookieAnswers ==
    { answer \in UpstreamAnswers :
        answer.status \in { 200, 302 } /\ "x-frame-options" \notin DOMAIN answer.headers }

InitCookies == InitWith({ ObjectFile([ targetUrl |-> ExampleUrl ]) }) /\ writable

NextCookies ==
    \/ ProxyRequestOf({ << "/" >>, << "/", "dashboard" >> }, { ProxyHost }, BrowserCookies)
    \/ UpstreamFails
    \/ UpstreamRespondsOf(CookieAnswers)
    \/ BodyEnds

SpecCookies == InitCookies /\ [][NextCookies]_vars

\* live reload: the sockets and the routes that change state
ReloadForms ==
    { form \in Forms : Has(form, "targetUrl") /\ form["targetUrl"] = ExampleUrl }
    \cup { form \in Forms : ~Has(form, "targetUrl") }

ReloadAnswers ==
    { answer \in UpstreamAnswers : answer.status = 200 /\ "etag" \in DOMAIN answer.headers }

InitReload == InitWith({ MissingFile })

NextReload ==
    \/ \E c \in Clients : Connect(c)
    \/ \E c \in Clients : Closing(c)
    \/ \E c \in Clients : Disconnect(c)
    \/ PostConfigOf(ReloadForms)
    \/ PostReset
    \/ PostClearCookies
    \/ UpstreamRespondsOf(ReloadAnswers)
    \/ BodyEnds

SpecReload == InitReload /\ [][NextReload]_vars

\* the resolver on the URLs the rewriter writes
MaxLabels == 3
MaxSegments == 2

HostLabels == { "cdn", "com" }
PathSegments == { << "a" >>, << "logo", ".", "png" >>, << >> }

\* the labels of a host name joined by dots
RECURSIVE Dotted(_)
Dotted(labels) ==
    IF Len(labels) = 1 THEN << labels[1] >>
    ELSE << labels[1], "." >> \o Dotted(Tail(labels))

\* the segments of a path, each after a "/"
RECURSIVE Slashed(_)
Slashed(segments) ==
    IF Len(segments) = 0 THEN << >>
    ELSE << "/" >> \o segments[1] \o Slashed(Tail(segments))

DottedHosts ==
    { Dotted(labels) : labels \in UNION { [ 1..n -> HostLabels ] : n \in 2..MaxLabels } }

SegmentPaths ==
    { Slashed(segments) :
        segments \in UNION { [ 1..n -> PathSegments ] : n \in 2..MaxSegments } }

ProxyOrigin == << "http:", "/", "/" >> \o ProxyHost

\* the page whose links are followed is served from the configured target
ResolverUrl == << "https:", "/", "/", "cdn", ".", "com", "/" >>
ResolverHost == ParseURL(ResolverUrl).host

\* req.originalUrl of the request a browser makes for the URL u
RequestTarget(u) == ParseURL(u).path

\* the URL revision r writes for host and path; the links urlPattern does not
\* match stay as they were and are never requested from the proxy
Written(r, host, path) == RewriteUrl(r, ProxyOrigin, ResolverHost, host \o path)
ViaProxy(r, host, path) == StartsWith(Written(r, host, path), ProxyOrigin)

EncodedRequests(r) ==
    { RequestTarget(Written(r, host, path)) :
        host \in { h \in DottedHosts : \E path \in SegmentPaths : ViaProxy(r, h, path) },
        path \in SegmentPaths }

InitResolver == InitWith({ ObjectFile([ targetUrl |-> ResolverUrl ]) }) /\ writable

\* one request per behaviour: the resolver keeps nothing between requests
NextResolver ==
    \/ req.phase = "idle" /\ ProxyRequestOf(EncodedRequests(rev), { ProxyHost }, { NoCookies })
    \/ UpstreamFails

SpecResolver == InitResolver /\ [][NextResolver]_vars

\* the rewriter on HTML pages served from the configured target and from a
\* sibling host behind the reserved prefix, by a proxy named "proxy" and by one
\* inside the domain of the target
RewriterDocuments ==
    { << "<html>", "<head>", "</head>", "<body>" >>,
      << "<html>", "<head>", "<meta csp>", "</head>", "<body>" >> }

Pieces ==
    { NoPiece,
      Piece(TRUE, << "/", "logo", ".", "png" >>),
      Piece(TRUE, << "img", "/", "logo", ".", "png" >>),
      Piece(TRUE, << "httpdocs", "/", "logo", ".", "png" >>),
      Piece(TRUE, << "#", "top" >>),
      Piece(TRUE, << "https:", "/", "/", "b", ".", "cdn", ".", "com", "/", "x" >>),
      Piece(TRUE, << "https:", "/", "/", "other", ".", "org", "/", "x" >>),
      Piece(FALSE, << "/", "/", "cdn", ".", "com", "/", "x" >>),
      Piece(FALSE, << "https:", "/", "/", "cdn", ".", "com", ".", "evil", ".", "org", "/", "x" >>),
      Piece(FALSE, << "integrity=", "sha384" >>) }

NextRewriter ==
    \/ ProxyRequestOf({ << "/" >>,
                         proxyHostPrefix \o << "a", ".", "cdn", ".", "com", "/", "page" >> },
                       { ProxyHost, << "proxy", ".", "cdn", ".", "com" >> },
                       { NoCookies })
    \/ UpstreamRespondsOf({ Answered(200, "content-type" :> Html) })
    \/ BodyEndsOf(RewriterDocuments, Pieces)

SpecRewriter == InitResolver /\ [][NextRewriter]_vars

\* requests for the page of the target while the settings routes are used
NextSnapshot ==
    \/ PostConfigOf({ form \in Forms : FormAccepted(form) /\ ParseURL(form["targetUrl"]).ok })
    \/ PostReset
    \/ ProxyRequestOf({ << "/" >> }, { ProxyHost }, { NoCookies })
    \/ UpstreamRespondsOf({ Answered(200, "content-type" :> Html) })
    \/ BodyEndsOf({ << "<html>", "<head>", "</head>", "<body>" >> },
                  { Piece(TRUE, << "/", "logo", ".", "png" >>) })
    \/ UpstreamFails

SpecSnapshot == InitResolver /\ [][NextSnapshot]_vars

\* the Referer header of requests for pages and for rewritten URLs
Referers ==
    { << >>,
      << "http:", "/", "/", "proxy", "/", "dashboard", "?", "tab=1" >>,
      << "http:", "/", "/", "proxy" >> \o proxyHostPrefix
          \o << "cdn", ".", "example", ".", "com", "/", "a" >>,
      << "about:blank" >> }

NextReferer ==
    \/ \E originalUrl \in RequestUrls, referer \in Referers :
          ProxyBeginWith("GET", originalUrl, ProxyHost, NoCookies, referer)
    \/ UpstreamFails

SpecReferer == InitProxy /\ [][NextReferer]_vars

\* the auto-scroll driver of a page served with autoScroll on: the stored
\* scroll sequences and the scrollable heights of the page, with the script at
\* its start; requestAnimationFrame, setInterval and setTimeout keep calling
\* the driver, hence the fairness
SequenceTexts ==
    { << >>,
      << "0", "-", "2" >>,
      << "0", "-", "2", ",", "1", "-", "3" >>,
      << "0", "-", "2", ",", "x", ",", "1", "-", "3" >>,
      << "1", "-", "9" >>,
      << "-", "2" >>,
      << "3", "-", "1", ",", "0", "-", "2" >>,
      << "x" >> }

PageHeights == { 3, 4 }

InitDriver ==
    /\ InitServer({ ObjectFile([ autoScroll |-> TRUE, scrollSequence |-> text ]) :
                    text \in SequenceTexts })
    /\ writable
    /\ rev \in { 1, 3 }
    /\ \E pageHeight \in PageHeights :
         scroll = StartDriver(rev, getConfig(rev, configFile).cfg["scrollSequence"],
                              pageHeight)

SpecDriver ==
    /\ InitDriver
    /\ [][ScrollStep \/ DwellEnds]_vars
    /\ WF_vars(ScrollStep)
    /\ WF_vars(DwellEnds)

\* ------------------------------------------------------------------------
\* Properties
\* ------------------------------------------------------------------------

\* the value the settings file documents for key k: the stored value where the
\* file is a JSON object that has the key, the default otherwise
Documented(file, k) ==
    IF file.kind = "object" /\ k \in DOMAIN file.obj THEN file.obj[k] ELSE defaultConfig[k]

\* C1: whatever the settings file holds (missing, empty, malformed, an object
\* with any subset of the five keys), a GET /config that reads it through
\* getConfig meets no error and shows all five keys, each with its stored value
\* or else its documented default.
C1_GetConfigTotal ==
    [][ (tick' # tick /\ res'.op = "GET /config") =>
            /\ res'.status = 200
            /\ DOMAIN res'.shown = Keys
            /\ \A k \in Keys : res'.shown[k] = Documented(configFile, k) ]_vars

\* the handler has taken the request in req up
Handled == req.phase # "idle"

\* C2: a proxied request whose configured targetUrl contains the inbound Host
\* value is answered with the configuration error page, and no upstream fetch is
\* issued for it.
C2_SelfLoopGuard ==
    ( /\ Handled
      /\ "targetUrl" \in DOMAIN req.config
      /\ Includes(req.config["targetUrl"], req.host) )
    => ( req.phase = "done" /\ req.page = "config_error" /\ ~outbound.sent )

\* C3: a proxied request under a stored targetUrl that is no absolute URL is
\* answered with a 500 page that links to /config, without an upstream fetch, and
\* the process keeps running.
C3_InvalidTargetNotFatal ==
    ( /\ Handled
      /\ configFile.kind = "object"
      /\ "targetUrl" \in DOMAIN configFile.obj
      /\ ~ParseURL(configFile.obj["targetUrl"]).ok )
    => ( /\ alive
         /\ req.phase = "done"
         /\ req.status = 500
         /\ req.page \in { "invalid_target", "config_error" }
         /\ ~outbound.sent )

PrefixedHosts == { CdnHost, ProxyHost }
PrefixedPaths == { << "/" >>, << "/", "a" >>, << "/", "a", "/", "b" >> }

\* C4: for a request path '/--proxy-host--/' + H + P the upstream request has the
\* scheme of the configured target, host H, path P, and the Host header H; P may
\* be "/".
C4_PrefixedRequest ==
    \A H \in PrefixedHosts, P \in PrefixedPaths :
        ( outbound.sent /\ req.url = proxyHostPrefix \o H \o P )
        => ( /\ outbound.url.protocol = ParseTarget(req.config).protocol
             /\ outbound.url.host = H
             /\ outbound.url.path = P
             /\ outbound.host = H )

\* C5: a request for the URL the rewriter writes for a dotted host H and a path P
\* of several segments is decoded to exactly H and P, and the request the
\* handler then issues has target host H and path P.
C5_RoundTrip ==
    \A H \in DottedHosts, P \in SegmentPaths :
        ( /\ Handled
          /\ ViaProxy(rev, H, P)
          /\ req.url = RequestTarget(Written(rev, H, P)) )
        => ( /\ DecodePrefix(req.url) = [ originalHost |-> H, originalUrl |-> P ]
             /\ req.phase = "fetching" => ( req.target.host = H /\ req.path = P ) )

\* C6: an upstream 3xx with a Location header reaches the client with the same
\* status and a Location that is the reserved-prefix URL of the proxy for the
\* host and path the upstream Location resolves to.
C6_RedirectTranslated ==
    ( /\ req.phase = "done"
      /\ req.upStatus \in 300..399
      /\ "location" \in DOMAIN req.upHeaders )
    => ( /\ req.status = req.upStatus
         /\ "location" \in DOMAIN req.headers
         /\ \E protocol \in Schemes :
              req.headers["location"]
                = EncodedUrl(<< protocol, "/", "/" >> \o req.host,
                             LocationOf(req.upHeaders, req.target).host,
                             LocationOf(req.upHeaders, req.target).path) )

\* C7: an upstream redirect status without a Location header reaches the client
\* as an error response, not as a redirect.
C7_MissingLocationIsError ==
    ( /\ req.phase = "done"
      /\ req.upStatus \in RedirectStatuses
      /\ "location" \notin DOMAIN req.upHeaders )
    => ( req.status >= 400 /\ "location" \notin DOMAIN req.headers )

\* C8: a response whose upstream status is no redirect and whose body arrived in
\* full goes to the client with the upstream status, buffered or piped.
C8_StatusForwarded ==
    ( req.phase = "done" /\ req.page \in { "buffered", "piped" } )
    => req.status = req.upStatus

\* C9: the Cookie header of every upstream request is the union of the cookies
\* the upstream has set so far and the cookies of the browser, the browser's
\* value winning on a shared name.
C9_CookieJar ==
    req.phase = "fetching" => outbound.cookie = Merge(issued, req.cookie)

\* a step in which a state-changing route answers with success: the redirect of
\* POST /config or POST /reset, or the end of a POST /reset or POST /clear-cookies
\* that got an answer below 400
StateChanged ==
    \/ /\ tick' # tick
       /\ res'.op \in { "POST /config", "POST /reset" }
       /\ res'.status = 302
    \/ /\ req.phase # "done"
       /\ req'.phase = "done"
       /\ req'.method = "POST"
       /\ req'.url \in { ResetUrl, ClearCookiesUrl }
       /\ req'.status < 400

\* C10: a step sends 'reload' once to every open client when it is a successful
\* POST /config, POST /reset or POST /clear-cookies, and sends nothing otherwise.
C10_ReloadOnChange ==
    [][ \A c \in Clients :
          inbox'[c] = inbox[c] + (IF StateChanged /\ clients[c] = "open" THEN 1 ELSE 0) ]_vars

\* a step in which a route calls broadcastReload(): the 302 of POST /config or of
\* POST /reset
Broadcasts ==
    /\ tick' # tick
    /\ res'.op \in { "POST /config", "POST /reset" }
    /\ res'.status = 302

\* C11: no step sends 'reload' to a client that has left wss.clients, and a
\* broadcast made while some client is gone still reaches every open client.
C11_DisconnectedGetNothing ==
    [][ \A c \in Clients :
          clients[c] = "none"
          => /\ inbox'[c] = inbox[c]
             /\ Broadcasts => \A d \in Clients :
                                clients[d] = "open" => inbox'[d] = inbox[d] + 1 ]_vars

\* C11 witness: client 1 got one 'reload' and has left; client 2, still open,
\* got a broadcast that client 1 did not get
C11_Witness ==
    /\ clients[1] = "none"
    /\ clients[2] = "open"
    /\ inbox[1] = 1
    /\ inbox[2] = 2

\* the fields of a settings object are valid: an absolute targetUrl and numbers
\* for scaleFactor and scrollSpeed
ValidConfig(config) ==
    /\ DOMAIN config = Keys
    /\ ParseURL(config["targetUrl"]).ok
    /\ ~config["scaleFactor"].nan
    /\ ~config["scrollSpeed"].nan

\* a step in which the proxy handler takes a request up
ProxyBegins == req.phase \notin { "fetching", "body" } /\ req' # req

C13_ResetRestoresDefaults ==
    [][ /\ ( tick' # tick /\ res'.op = "POST /reset" /\ res'.status = 302 )
           => /\ getConfig(rev, configFile') = Returned(defaultConfig)
              /\ res'.location = ConfigUrl
        /\ ~( outbound'.sent /\ outbound'.method = "POST" /\ req'.url = ResetUrl ) ]_vars

\* a step in which POST /config or POST /reset called saveConfig: the route
\* answered, and not with the 400 that precedes any save
SaveAttempted ==
    /\ tick' # tick
    /\ res'.op \in { "POST /config", "POST /reset" }
    /\ res'.status # 400

\* C14: a POST /config or POST /reset whose saveConfig cannot write is answered
\* with a 500 error page, leaves the settings file and what getConfig returns
\* as they were, sends no 'reload' and leaves the process serving.
C14_SaveFailure ==
    [][ ( ~writable /\ SaveAttempted )
        => /\ res'.status = 500
           /\ res'.page \in { "save_error", "express_error" }
           /\ configFile' = configFile
           /\ getConfig(rev, configFile') = getConfig(rev, configFile)
           /\ inbox' = inbox
           /\ alive' ]_vars

\* C14 witness: a save failed on a stored object while a live-reload client was
\* open; the client got nothing and the object is still there
C14_Witness ==
    /\ ~writable
    /\ res.op = "POST /config"
    /\ res.status = 500
    /\ configFile = ObjectFile([ targetUrl |-> ExampleUrl, autoScroll |-> TRUE ])
    /\ clients[1] = "open"
    /\ inbox[1] = 0
    /\ alive

\* C15: a POST /report-height whose height is a number, 0 included, makes
\* lastReportedHeight that number and is answered 200; one whose height is
\* missing or not a number is answered 400 and leaves lastReportedHeight alone.
C15_ReportHeight ==
    [][ \A body \in HeightBodies :
          ReportHeightOf(body)
          => IF body.kind = "number"
             THEN lastReportedHeight' = Pixels(body.px) /\ res'.status = 200
             ELSE lastReportedHeight' = lastReportedHeight /\ res'.status = 400 ]_vars

\* C16: whatever POST /config and POST /reset have been sent, the object the
\* last save stored has a targetUrl that parses as an absolute URL, a positive
\* scaleFactor and a positive integer scrollSpeed (a submission that lacks one
\* is never stored).
C16_StoredConfigValid ==
    saved.op # ""
    => /\ ValidConfig(saved.config)
       /\ saved.config["scaleFactor"].v > 0
       /\ saved.config["scrollSpeed"].v > 0

\* C17: a request whose upstream fetch ends without an answer is answered with
\* the 500 page that carries the failure message; the outbound request and the
\* count of attempts change only when a new inbound request is taken up, and
\* that count is one (no retry, no redirect followed).
C17_NetworkFailure ==
    [][ /\ ( req.phase = "fetching" /\ req' # req /\ req'.upStatus = 0 )
           => /\ req'.phase = "done"
              /\ req'.status = 500
              /\ req'.page = "proxy_error"
              /\ alive'
        /\ ( outbound' # outbound \/ req'.fetches # req.fetches ) => ProxyBegins
        /\ outbound'.sent => req'.fetches = 1 ]_vars

\* C17 witness: a request was sent upstream once, the fetch failed, the 500
\* page was sent
C17_Witness ==
    /\ req.phase = "done"
    /\ req.upStatus = 0
    /\ req.page = "proxy_error"
    /\ req.status = 500
    /\ req.fetches = 1
    /\ outbound.sent

\* C18: a request whose response headers have arrived ends with one completed
\* response, whether the body arrives or its stream fails, buffered or piped:
\* the step that ends the wait for the body sends a response and leaves the
\* process alive.
C18_BodyFailureAnswered ==
    [][ ( req.phase = "body" /\ req' # req )
        => /\ req'.phase = "done"
           /\ req'.status # 0
           /\ alive' ]_vars

\* C19: the body sent for an HTML response holds the instrumentation exactly
\* once, whatever head tags the upstream document has.
C19_InjectedOnce ==
    ( req.phase = "done" /\ req.page = "buffered" /\ req.doc # << >> )
    => Cardinality({ i \in DOMAIN req.body : req.body[i] = Instrumentation }) = 1

\* C20: for an upstream response that is no redirect, the headers sent to the
\* client are the upstream's without exactly content-security-policy,
\* x-frame-options, transfer-encoding, content-encoding, content-length and
\* set-cookie: every other one goes out unchanged, nothing else goes out but a
\* separately handled Set-Cookie, and the generic copy forwards none of the six.
C20_HeaderFilter ==
    LET Withheld == { "content-security-policy", "x-frame-options", "transfer-encoding",
                      "content-encoding", "content-length", "set-cookie" }
    IN
    ( req.phase \in { "body", "done" } /\ req.upStatus \in { 200, 201, 404, 500, 503 } )
    => /\ \A k \in ( DOMAIN req.upHeaders ) \ Withheld :
             k \in DOMAIN req.headers /\ req.headers[k] = req.upHeaders[k]
       /\ ( DOMAIN req.headers ) \ { "set-cookie" } \subseteq ( DOMAIN req.upHeaders ) \ Withheld
       /\ ( DOMAIN CopyHeaders(rev, req.upHeaders) ) \cap Withheld = {}

\* C21: for an upstream response that is no redirect and whose content type is
\* not HTML, the handler does not buffer the body, and the client is sent no
\* content-encoding header (the body it gets is the decompressed one).
C21_NonHtmlStreamed ==
    ( /\ req.phase \in { "body", "done" }
      /\ req.upStatus \in { 200, 201, 404, 503 }
      /\ "content-type" \in DOMAIN req.upHeaders
      /\ ~Includes(req.upHeaders["content-type"], Html) )
    => /\ ~req.buffered
       /\ "content-encoding" \notin DOMAIN req.headers

\* C22: where the piece of the upstream body holds no reserved prefix, what the
\* rewriter writes for it holds the reserved prefix at most once, whatever the
\* host of the proxy.
C22_NoDoubleEncoding ==
    ( req.phase = "done" /\ req.page = "buffered"
      /\ ~Includes(req.piece.v, << "--proxy-host--" >>) )
    => Cardinality({ i \in DOMAIN req.written.v : req.written.v[i] = "--proxy-host--" }) <= 1

\* C23: in an HTML response fetched from host H (the configured host, or the
\* host decoded from the reserved prefix), a root-relative or bare-relative
\* value V of a src, href or action attribute is written as proxy origin +
\* '/--proxy-host--/' + H + '/' + V (V without its leading slash).
C23_RelativeRewritten ==
    LET V == req.piece.v
        H == IF StartsWith(req.url, proxyHostPrefix)
             THEN DecodePrefix(req.url).originalHost
             ELSE ParseTarget(req.config).host
    IN  ( /\ req.phase = "done" /\ req.page = "buffered"
          /\ req.piece.attr
          /\ Len(V) > 0
          /\ V[1] \notin Schemes \cup { "#" }
          /\ ~StartsWith(V, << "/", "/" >>) )
        => req.written.v = << "http:", "/", "/" >> \o req.host \o proxyHostPrefix \o H
                           \o << "/" >> \o ( IF V[1] = "/" THEN Tail(V) ELSE V )

\* C24: an absolute or protocol-relative URL of the upstream body whose host S
\* is the registrable domain of the upstream (the last two labels of its host)
\* or a subdomain of it is written as proxy origin + '/--proxy-host--/' + S +
\* its path; a URL of a host outside that domain is written unchanged.
C24_AbsoluteRewritten ==
    LET v      == req.piece.v
        text   == Substring(IF v[1] \in Schemes THEN Tail(v) ELSE v, 2)
        S      == Authority(text)
        domain == baseDomain(req.target.host)
        inside == \/ S = domain
                  \/ /\ Len(S) > Len(domain)
                     /\ SubSeq(S, Len(S) - Len(domain), Len(S)) = << "." >> \o domain
    IN  ( /\ req.phase = "done" /\ req.page = "buffered"
          /\ Len(v) > 2
          /\ v[1] \in Schemes \/ StartsWith(v, << "/", "/" >>) )
        => req.written.v = IF inside
                           THEN << "http:", "/", "/" >> \o req.host \o proxyHostPrefix \o S
                                \o Substring(text, Len(S))
                           ELSE v

\* C25: where the upstream body holds no relative src/href/action value and no
\* absolute URL of the upstream's registrable domain, the body sent is the
\* upstream body with the instrumentation added once and nothing else changed
\* or removed.
C25_UrlFreeUnchanged ==
    LET v        == req.piece.v
        url      == Len(v) > 2 /\ ( v[1] \in Schemes \/ StartsWith(v, << "/", "/" >> ) )
        S        == Authority(Substring(IF v[1] \in Schemes THEN Tail(v) ELSE v, 2))
        domain   == baseDomain(req.target.host)
        inside   == \/ S = domain
                    \/ /\ Len(S) > Len(domain)
                       /\ SubSeq(S, Len(S) - Len(domain), Len(S)) = << "." >> \o domain
        relative == /\ req.piece.attr
                    /\ Len(v) > 0
                    /\ v[1] \notin Schemes \cup { "#" }
                    /\ ~StartsWith(v, << "/", "/" >>)
    IN  ( /\ req.phase = "done" /\ req.page = "buffered" /\ req.doc # << >>
          /\ ~relative
          /\ ~( url /\ inside ) )
        => /\ req.written = req.piece
           /\ SelectSeq(req.body, LAMBDA t : t # Instrumentation) = req.doc
           /\ Len(req.body) = Len(req.doc) + 1

\* C26: the Referer of an outbound request to an upstream other than the proxy
\* itself holds neither the reserved prefix nor the proxy's own host, and begins
\* with the origin of the upstream.
C26_RefererClean ==
    ( outbound.sent /\ outbound.referer # << >> /\ req.target.host # req.host )
    => /\ ~Includes(outbound.referer, << "--proxy-host--" >>)
       /\ ~Includes(outbound.referer, req.host)
       /\ StartsWith(outbound.referer, Origin(req.target))

\* C30: no outbound request goes to the host the inbound request came in on,
\* whatever the inbound path, the reserved-prefix form included.
C30_NeverFetchesItself ==
    outbound.sent => ( outbound.url.host # req.host /\ outbound.host # req.host )

C27_ParsedSequence ==
    scroll.mode # "off" =>
        LET number(part) == part # << >> /\ DigitRun(part) = part
            pair(entry)  == LET parts == SplitBy(entry, "-")
                            IN  Len(parts) = 2 /\ number(parts[1]) /\ number(parts[2])
            wanted       == SelectSeq(SplitBy(scroll.text, ","), pair)
            start(entry) == DigitsValue(SplitBy(entry, "-")[1], 0)
            end(entry)   == DigitsValue(SplitBy(entry, "-")[2], 0)
        IN  IF wanted = << >>
            THEN \/ scroll.mode = "full"
                 \/ scroll.ranges = << Range(0, scroll.height) >>
            ELSE /\ scroll.mode = "ranges"
                 /\ Len(scroll.ranges) = Len(wanted)
                 /\ \A i \in DOMAIN wanted :
                      /\ scroll.ranges[i].start = start(wanted[i])
                      /\ scroll.ranges[i].end \in { end(wanted[i]),
                                                    ScrollTo(end(wanted[i]), scroll.height) }

\* C28: with auto-scroll on, the driver's range index always stays within the
\* list, changes only to the next index (from the last to the first) and the
\* change begins a dwell; and every range of the list is visited again and
\* again, the driver scrolling from its start.
C28_ScrollCycle ==
    /\ [](scroll.mode = "ranges" => scroll.index < Len(scroll.ranges))
    /\ [][ scroll.index' # scroll.index =>
             /\ scroll.index' = (scroll.index + 1) % Len(scroll.ranges)
             /\ scroll.phase' = "dwell" ]_vars
    /\ \A i \in 0..1 :
         [](scroll.mode = "ranges" /\ i < Len(scroll.ranges) =>
              <>( /\ i < Len(scroll.ranges)
                  /\ scroll.index = i
                  /\ scroll.phase = "scrolling"
                  /\ scroll.y = ScrollTo(scroll.ranges[i + 1].start, scroll.height) ))

============================================================================
